---- MODULE Spec2Model ----
(***************************************************************************)
(* Product demand forecast web application (src/app.py).                   *)
(*                                                                         *)
(* The process loads a demand dataset once, then serves one endpoint:      *)
(* GET renders the empty form, POST runs the pipeline                      *)
(*   prepare_data -> get_yearly_demand -> train_arima -> predict_demand    *)
(*   -> create_historical_plot -> create_forecast_plot -> template.        *)
(*                                                                         *)
(* Encodings.  Python None is the empty tuple <<>> and a present value x   *)
(* is <<x>>.  A pandas Series is a sequence of points                      *)
(* [year, total, isnan]; a dict is a sequence of <<key, value>> pairs in   *)
(* insertion order.  A CSV date is <<year, month, day>>; a decimal string  *)
(* is the sequence of its digits.  A DataFrame is an object               *)
(* [rows, parsed, indexed]: its rows, whether its Date column has been     *)
(* converted to timestamps, and whether that column has been moved into    *)
(* the index (after which the frame has no Date column).  The in-place     *)
(* pandas calls act on the object a name is bound to, in a heap of two     *)
(* objects: data (the global frame) and local (the frame the function      *)
(* works on).  The outcomes of the statsmodels and matplotlib calls are    *)
(* not fixed by this source: they are inputs of a request (record lib).    *)
(***************************************************************************)
EXTENDS Integers, Sequences, FiniteSets, TLC

VARIABLES data, products, state, page, calls, answered

\* answered is a history variable: some request has been answered since the
\* process started
vars == <<data, products, state, page, calls, answered>>

\* ------------------------------------------------------------------ bounds
MaxRows == 3

\* ------------------------------------------------------- program constants
MIN_YEAR == 2015
MAX_YEAR == 2024
FORECAST_MIN_YEAR == 2025
FORECAST_MAX_YEAR == 2029
STEPS == 5
ARIMA_ORDER == <<5, 1, 0>>

ERR_NO_DATA == "No data found for this product or no data between 2015-2024."
ERR_TRAINING == "Failed to train ARIMA model."
ERR_FORECAST == "Failed to generate forecast."

None == <<>>
Some(x) == <<x>>

\* ------------------------------------------------------------ input sets
Row(c, dt, q) == [Product_Code |-> c, Date |-> dt, Order_Demand |-> q]

SampleRows ==
    { Row("A1", <<2014, 6, 15>>, 100), Row("A1", <<2015, 3, 1>>, 100),
      Row("A1", <<2018, 2, 28>>, 120), Row("A1", <<2025, 1, 1>>, 120),
      Row("A1", <<2016, 13, 1>>, 100),
      Row("B2", <<2022, 2, 28>>, 100), Row("B2", <<2024, 12, 31>>, 120) }

Datasets == UNION { [1..n -> SampleRows] : n \in 0..MaxRows }

Forms == { [f \in {} |-> ""] } \cup
         { [f \in {"product_code"} |-> c] : c \in {"A1", "B2"} }

Outcome == {"ok", "raises"}

ForecastSamples == { [i \in 1..STEPS |-> 110], [i \in 1..STEPS |-> 100 + i] }

FirstSample == CHOOSE v \in ForecastSamples : \A i \in 1..STEPS : v[i] = 110

\* what the library calls of one request do.  The source fixes neither
\* whether ARIMA(...).fit() or forecast() raises for a given series nor
\* whether a plot call raises, so each is drawn freely, for every series;
\* a call that is not reached because an earlier one raised has no outcome
\* of its own (fixed to "ok")
LibOutcomes ==
    { l \in [fit : Outcome, forecast : Outcome, values : ForecastSamples,
             historical_plot : Outcome, forecast_plot : Outcome] :
        /\ l.fit = "raises" => l.forecast = "ok"
        /\ l.forecast = "raises" => l.values = FirstSample
        /\ (l.fit = "raises" \/ l.forecast = "raises") => l.historical_plot = "ok"
        /\ l.historical_plot = "raises" => l.forecast_plot = "ok"
        /\ l.fit = "raises" => l.values = FirstSample }

\* -------------------------------------------------------- generic helpers
\* str(n) and int(s) for non-negative integers, as digit sequences
RECURSIVE str(_)
str(n) == IF n < 10 THEN <<n>> ELSE Append(str(n \div 10), n % 10)

RECURSIVE int(_)
int(s) == IF Len(s) = 0 THEN 0
          ELSE int(SubSeq(s, 1, Len(s) - 1)) * 10 + s[Len(s)]

\* ------------------------------------------------------------ data loader
RECURSIVE unique(_)
unique(s) ==
    IF Len(s) = 0 THEN <<>>
    ELSE LET front == unique(SubSeq(s, 1, Len(s) - 1))
         IN  IF \E i \in 1..Len(front) : front[i] = s[Len(s)]
             THEN front ELSE Append(front, s[Len(s)])

ProductCodes(d) == [i \in 1..Len(d) |-> d[i].Product_Code]

\* -------------------------------------------------------- pandas helpers
IsLeap(y) == (y % 4 = 0 /\ y % 100 # 0) \/ y % 400 = 0

DaysIn(y, m) == IF m \in {4, 6, 9, 11} THEN 30
                ELSE IF m = 2 THEN (IF IsLeap(y) THEN 29 ELSE 28)
                ELSE 31

NaT == [nat |-> TRUE, year |-> 0]

\* pd.to_datetime(..., errors='coerce') on one cell
to_datetime(dt) ==
    IF dt[2] \in 1..12 /\ dt[3] \in 1..DaysIn(dt[1], dt[2])
    THEN [nat |-> FALSE, year |-> dt[1]]
    ELSE NaT

\* variant: the product filter is dropped
SelectProductUnfiltered(d, product_code) == d

\* data[data['Product_Code'] == product_code].copy()
SelectProduct(d, product_code) ==
    LET Match(r) == r.Product_Code = product_code IN SelectSeq(d, Match)

\* rows whose parsed date is a timestamp, with the timestamp's year
ValidYears(rows) ==
    { to_datetime(rows[i].Date).year :
        i \in { j \in 1..Len(rows) : ~to_datetime(rows[j].Date).nat } }

SetMin(S) == CHOOSE x \in S : \A y \in S : x <= y
SetMax(S) == CHOOSE x \in S : \A y \in S : x >= y

RECURSIVE SumYear(_, _)
SumYear(rows, y) ==
    IF Len(rows) = 0 THEN 0
    ELSE LET ts == to_datetime(rows[1].Date)
         IN  (IF ~ts.nat /\ ts.year = y THEN rows[1].Order_Demand ELSE 0)
             + SumYear(Tail(rows), y)

HasYear(rows, y) == y \in ValidYears(rows)

\* variant: .sum(min_count=1), an empty bin is NaN
BinTotalMinCount(rows, y) ==
    [year |-> y, total |-> SumYear(rows, y), isnan |-> ~HasYear(rows, y)]

\* the value of one yearly bin under .sum(): an empty bin sums to 0
BinTotal(rows, y) == [year |-> y, total |-> SumYear(rows, y), isnan |-> FALSE]

\* the bins .resample('Y') creates: one per year from the first to the last
\* timestamp of the index
ResampleYears(rows) == SetMin(ValidYears(rows))..SetMax(ValidYears(rows))

\* resample('Y') raises when the index holds no timestamp at all
ResampleRaises(rows) == ValidYears(rows) = {}

\* variant: a groupby on the year, which has no bin for a year without rows
ResampleSumGroupBy(rows) ==
    LET lo == SetMin(ValidYears(rows))
        n  == Cardinality(ResampleYears(rows))
        Present(p) == HasYear(rows, p.year)
    IN  SelectSeq([i \in 1..n |-> BinTotal(rows, lo + i - 1)], Present)

\* product['Order_Demand'].resample('Y').sum()
ResampleSum(rows) ==
    LET lo == SetMin(ValidYears(rows))
        n  == Cardinality(ResampleYears(rows))
    IN  [i \in 1..n |-> BinTotal(rows, lo + i - 1)]

\* .fillna(method='ffill')
RECURSIVE ffill(_)
ffill(s) ==
    IF Len(s) <= 1 THEN s
    ELSE LET front == ffill(SubSeq(s, 1, Len(s) - 1))
             last  == s[Len(s)]
             prev  == front[Len(front)]
         IN  IF last.isnan /\ ~prev.isnan
             THEN Append(front, [last EXCEPT !.total = prev.total, !.isnan = FALSE])
             ELSE Append(front, last)

\* s[s.index.year >= 2015], then s[s.index.year <= 2024]
YearWindow(s) ==
    LET AtLeast(p) == p.year >= MIN_YEAR
        AtMost(p)  == p.year <= MAX_YEAR
    IN  SelectSeq(SelectSeq(s, AtLeast), AtMost)

empty(s) == Len(s) = 0

\* ------------------------------------------------------ series preparation
\* the frame the loader builds: plain rows, Date still a text column
Load(rows) == [rows |-> rows, parsed |-> FALSE, indexed |-> FALSE]

HasDateColumn(frame) == ~frame.indexed

\* local = data[data['Product_Code'] == product_code].copy(): the local name
\* is bound to a new object; data is left as it is
CopySelected(d, product_code) ==
    [data |-> d,
     local |-> [d EXCEPT !.rows = SelectProduct(d.rows, product_code)]]

\* local['Date'] = pd.to_datetime(local['Date'], errors='coerce'), in place
AssignParsedDates(heap) == [heap EXCEPT !.local.parsed = TRUE]

\* variant: data.set_index('Date', inplace=True), the global frame is indexed too
SetIndexInplaceOnData(heap) ==
    [heap EXCEPT !.local.indexed = TRUE, !.data.indexed = TRUE]

\* local.set_index('Date', inplace=True)
SetIndexInplace(heap) == [heap EXCEPT !.local.indexed = TRUE]

\* one execution of prepare_data: what it returns and the global frame after
prepare_data_call(d, product_code) ==
    LET h1 == CopySelected(d, product_code)
        h2 == SetIndexInplace(AssignParsedDates(h1))
    IN  IF empty(h1.local.rows) THEN [result |-> <<>>, data |-> h1.data]
        ELSE IF ~HasDateColumn(h1.local) THEN [result |-> <<>>, data |-> h1.data]
        ELSE IF ResampleRaises(h2.local.rows) THEN [result |-> <<>>, data |-> h2.data]
        ELSE [result |-> YearWindow(ffill(ResampleSum(h2.local.rows))),
              data |-> h2.data]

prepare_data(d, product_code) == prepare_data_call(d, product_code).result

\* one execution of get_yearly_demand
get_yearly_demand_call(d, product_code) ==
    LET h1 == CopySelected(d, product_code)
        h2 == SetIndexInplace(AssignParsedDates(h1))
    IN  IF empty(h1.local.rows) THEN [result |-> None, data |-> h1.data]
        ELSE IF ~HasDateColumn(h1.local) THEN [result |-> None, data |-> h1.data]
        ELSE IF ResampleRaises(h2.local.rows) THEN [result |-> None, data |-> h2.data]
        ELSE [result |-> Some(YearWindow(ResampleSum(h2.local.rows))),
              data |-> h2.data]

get_yearly_demand(d, product_code) == get_yearly_demand_call(d, product_code).result

\* ---------------------------------------------------------------- forecaster
train_arima(series, lib) ==
    IF lib.fit = "raises" THEN None
    ELSE Some([endog |-> series, order |-> ARIMA_ORDER])

predict_demand(model_fit, steps, lib) ==
    IF lib.forecast = "raises" THEN None
    ELSE Some([i \in 1..steps |-> lib.values[i]])

\* ------------------------------------------------------------ chart renderer
create_historical_plot(historical_data, product_code) ==
    [chart |-> "historical", title |-> product_code,
     placeholder |-> empty(historical_data),
     xs |-> [i \in 1..Len(historical_data) |-> historical_data[i].year],
     ys |-> [i \in 1..Len(historical_data) |-> historical_data[i].total]]

DictGet(dict, key) == (CHOOSE i \in 1..Len(dict) : dict[i][1] = key)

ForecastPlotYears(forecast_data) ==
    LET years == [i \in 1..Len(forecast_data) |-> int(forecast_data[i][1])]
        InRange(y) == FORECAST_MIN_YEAR <= y /\ y <= FORECAST_MAX_YEAR
    IN  SelectSeq(years, InRange)

create_forecast_plot(forecast_data, product_code) ==
    LET forecast_years == ForecastPlotYears(forecast_data)
    IN  [chart |-> "forecast", title |-> product_code,
         placeholder |-> empty(forecast_years),
         xs |-> forecast_years,
         ys |-> [i \in 1..Len(forecast_years) |->
                   forecast_data[DictGet(forecast_data, str(forecast_years[i]))][2]]]

get_printable_demand(product_code) == None

\* ------------------------------------------------------------------ template
\* truth of a template variable: None and undefined are false, and so is an
\* empty dict; the error messages and the encoded images are never empty
Truthy(v) == Len(v) > 0

TruthyDict(v) == Len(v) > 0 /\ Len(v[1]) > 0

render_template_string(ctx) ==
    [status |-> 200,
     products |-> ctx.products,
     product_code |-> ctx.product_code,
     error |-> ctx.error,
     forecast |-> ctx.forecast,
     historical_plot_url |-> ctx.historical_plot_url,
     forecast_plot_url |-> ctx.forecast_plot_url,
     sections |-> (IF TruthyDict(ctx.forecast) THEN {"forecast"} ELSE {})
                  \cup (IF Truthy(ctx.error) THEN {"error"} ELSE {})
                  \cup (IF Truthy(ctx.historical_plot_url) THEN {"historical_plot"} ELSE {})
                  \cup (IF Truthy(ctx.forecast_plot_url) THEN {"forecast_plot"} ELSE {})]

\* the response of the framework when the view function raises
ErrorResponse(code, prods) ==
    [status |-> code, products |-> prods, product_code |-> None, error |-> None,
     forecast |-> None, historical_plot_url |-> None, forecast_plot_url |-> None,
     sections |-> {}]

\* ------------------------------------------------------------ request handler
Context(prods, product_code, error, forecast, historical_plot_url, forecast_plot_url) ==
    [products |-> prods, product_code |-> product_code, error |-> error,
     forecast |-> forecast, historical_plot_url |-> historical_plot_url,
     forecast_plot_url |-> forecast_plot_url]

\* variant: the test of the historical series is inverted
NoDataCheckInverted(series, historical_data) ==
    empty(series) \/ Len(historical_data) = 0 \/ ~empty(historical_data[1])

\* series.empty or historical_data is None or historical_data.empty
NoDataCheck(series, historical_data) ==
    empty(series) \/ Len(historical_data) = 0 \/ empty(historical_data[1])

\* variant: labels start at the last historical year itself
ForecastDictFromLast(series, forecast_values) ==
    [j \in 1..Len(forecast_values) |->
        <<str(series[Len(series)].year + (j - 1)), forecast_values[j]>>]

\* {str(series.index[-1].year + i + 1): demand for i, demand in enumerate(...)}
ForecastDict(series, forecast_values) ==
    [j \in 1..Len(forecast_values) |->
        <<str(series[Len(series)].year + (j - 1) + 1), forecast_values[j]>>]

\* {year: demand for year, demand in forecast.items() if 2025 <= int(year) <= 2029}
FilterForecast(forecast) ==
    LET InRange(kv) == FORECAST_MIN_YEAR <= int(kv[1]) /\ int(kv[1]) <= FORECAST_MAX_YEAR
    IN  SelectSeq(forecast, InRange)

Reply(st, pg, cs) == [state |-> st, page |-> pg, calls |-> cs]

\* one entry of the request's call trace: the function, its argument (the
\* product code where the function takes one) and what came back
Call(fn, arg, result) == [fn |-> fn, arg |-> arg, result |-> result]

\* the success path of a POST, after the three checks passed
SuccessPath(prods, product_code, series, historical_data, forecast_values, lib, cs) ==
    LET forecast == FilterForecast(ForecastDict(series, forecast_values))
    IN  IF lib.historical_plot = "raises"
        THEN Reply("unhandled_error", ErrorResponse(500, prods),
                   Append(cs, Call("create_historical_plot", product_code, "raises")))
        ELSE IF lib.forecast_plot = "raises"
        THEN Reply("unhandled_error", ErrorResponse(500, prods),
                   cs \o <<Call("create_historical_plot", product_code, "image"),
                           Call("create_forecast_plot", product_code, "raises")>>)
        ELSE Reply("success",
                   render_template_string(
                       Context(prods, Some(product_code), None, Some(forecast),
                               Some(create_historical_plot(historical_data[1], product_code)),
                               Some(create_forecast_plot(forecast, product_code)))),
                   cs \o <<Call("create_historical_plot", product_code, "image"),
                           Call("create_forecast_plot", product_code, "image"),
                           Call("get_printable_demand", product_code, "None"),
                           Call("render_template_string", "template", "page")>>)

\* variant: every failure is rendered with the "no data" message
FailureSameMessage(st, prods, product_code, error, cs) ==
    Reply(st,
          render_template_string(
              Context(prods, Some(product_code), Some(ERR_NO_DATA), None, None, None)),
          Append(cs, Call("render_template_string", "template", "page")))


Failure(st, prods, product_code, error, cs) ==
    Reply(st,
          render_template_string(
              Context(prods, Some(product_code), Some(error), None, None, None)),
          Append(cs, Call("render_template_string", "template", "page")))

\* the view function: one request, from the method test to the return
index(d, prods, method, form, lib) ==
    IF method # "POST"
    THEN Reply("awaiting_input",
               render_template_string(Context(prods, None, None, None, None, None)),
               <<Call("render_template_string", "template", "page")>>)
    ELSE IF "product_code" \notin DOMAIN form
    THEN Reply("unhandled_error", ErrorResponse(400, prods), <<>>)
    ELSE
    LET product_code == form["product_code"]
        series == prepare_data(d, product_code)
        historical_data ==
            get_yearly_demand(prepare_data_call(d, product_code).data, product_code)
        cs1 == <<Call("prepare_data", product_code, IF empty(series) THEN "empty" ELSE "series"),
                 Call("get_yearly_demand", product_code,
                      IF Len(historical_data) = 0 THEN "None"
                      ELSE IF empty(historical_data[1]) THEN "empty" ELSE "series")>>
        model_fit == train_arima(series, lib)
        cs2 == Append(cs1, Call("train_arima", "series",
                                IF Len(model_fit) = 0 THEN "None" ELSE "model"))
        forecast_values == predict_demand(model_fit[1], STEPS, lib)
        cs3 == Append(cs2, Call("predict_demand", "model_fit",
                                IF Len(forecast_values) = 0 THEN "None" ELSE "values"))
    IN  IF NoDataCheck(series, historical_data)
        THEN Failure("no_data", prods, product_code, ERR_NO_DATA, cs1)
        ELSE IF Len(model_fit) = 0
        THEN Failure("training_failed", prods, product_code, ERR_TRAINING, cs2)
        ELSE IF Len(forecast_values) = 0
        THEN Failure("forecast_failed", prods, product_code, ERR_FORECAST, cs3)
        ELSE SuccessPath(prods, product_code, series, historical_data,
                         forecast_values[1], lib, cs3)

\* the global frame after one request: what the two series functions, run
\* one after the other, leave in it
DataAfter(d, method, form) ==
    IF method = "POST" /\ "product_code" \in DOMAIN form
    THEN get_yearly_demand_call(
             prepare_data_call(d, form["product_code"]).data,
             form["product_code"]).data
    ELSE d

\* --------------------------------------------------------------- the machine
Init ==
    /\ \E rows \in Datasets : data = Load(rows)
    /\ products = unique(ProductCodes(data.rows))
    /\ state = "awaiting_input"
    /\ page = None
    /\ calls = <<>>
    /\ answered = FALSE

Get ==
    /\ state = "awaiting_input"
    /\ LET r == index(data, products, "GET", [f \in {} |-> ""],
                      CHOOSE l \in LibOutcomes : TRUE)
       IN  /\ state' = r.state
           /\ page' = Some(r.page)
           /\ calls' = r.calls
    /\ data' = DataAfter(data, "GET", [f \in {} |-> ""])
    /\ UNCHANGED <<products, answered>>

Post(form, lib) ==
    /\ state = "awaiting_input"
    /\ LET r == index(data, products, "POST", form, lib)
       IN  /\ state' = r.state
           /\ page' = Some(r.page)
           /\ calls' = r.calls
    /\ data' = DataAfter(data, "POST", form)
    /\ UNCHANGED <<products, answered>>

\* the view function has returned and the response is sent: the request's
\* locals are gone and the server waits for the next request
Respond ==
    /\ state # "awaiting_input"
    /\ state' = "awaiting_input"
    /\ page' = None
    /\ calls' = <<>>
    /\ answered' = TRUE
    /\ UNCHANGED <<data, products>>

Next ==
    \/ Get
    \/ \E form \in Forms, lib \in LibOutcomes : Post(form, lib)
    \/ Respond

Spec == Init /\ [][Next]_vars

\* ================================================================ properties
Terminal == {"no_data", "training_failed", "forecast_failed", "success"}

RequestCodes == {"A1", "B2"}

\* a POST carrying a product code has been handled and not yet answered
Handled == state # "awaiting_input" /\ Len(calls) > 0

\* the product code of the request being answered (when Handled)
Requested == calls[1].arg

Called(fn) == \E i \in 1..Len(calls) : calls[i].fn = fn

CodesIn(d) == { d[i].Product_Code : i \in 1..Len(d) }

\* indices of the rows of product c, and those with a parseable date
RowsOf(c) == { i \in 1..Len(data.rows) : data.rows[i].Product_Code = c }

DatedRowsOf(c) == { i \in RowsOf(c) : ~to_datetime(data.rows[i].Date).nat }

RecordYears(c) == { data.rows[i].Date[1] : i \in DatedRowsOf(c) }

InWindow(y) == MIN_YEAR <= y /\ y <= MAX_YEAR

RECURSIVE SumOver(_, _)
SumOver(I, y) ==
    IF I = {} THEN 0
    ELSE LET i == CHOOSE j \in I : TRUE
         IN  (IF data.rows[i].Date[1] = y THEN data.rows[i].Order_Demand ELSE 0)
             + SumOver(I \ {i}, y)

Years(s) == [i \in 1..Len(s) |-> s[i].year]

Totals(s) == [i \in 1..Len(s) |-> s[i].total]

\* the points of an optional series, None counting as no points
PointsOf(h) == IF Len(h) = 0 THEN <<>> ELSE h[1]

\* ---------------------------------------------------------------------- C1
C1_ChecksInOrder ==
    Handled =>
        LET fail1 == calls[1].result = "empty" \/ calls[2].result \in {"None", "empty"}
            fail2 == Len(calls) >= 3 /\ calls[3].fn = "train_arima"
                     /\ calls[3].result = "None"
            fail3 == Len(calls) >= 4 /\ calls[4].fn = "predict_demand"
                     /\ calls[4].result = "None"
        IN  /\ calls[1].fn = "prepare_data" /\ calls[2].fn = "get_yearly_demand"
            /\ (calls[1].result = "empty") <=> empty(prepare_data(data, Requested))
            /\ (calls[2].result = "None") <=> (Len(get_yearly_demand(data, Requested)) = 0)
            /\ fail1 <=> state = "no_data"
            /\ fail1 => ~Called("train_arima") /\ ~Called("predict_demand")
            /\ ~fail1 => calls[3].fn = "train_arima"
            /\ fail2 <=> state = "training_failed"
            /\ fail2 => ~Called("predict_demand")
            /\ (~fail1 /\ ~fail2) => calls[4].fn = "predict_demand"
            /\ fail3 <=> state = "forecast_failed"
            /\ state = "success" => ~fail1 /\ ~fail2 /\ ~fail3
            /\ (~fail1 /\ ~fail2 /\ ~fail3) => state \in {"success", "unhandled_error"}

\* C1: every POST evaluates the checks (1) no data, (2) fit failed,
\* (3) projection failed in this order, the first failing check fixes the
\* terminal state, train_arima is not called after check 1 fails nor
\* predict_demand after check 1 or 2 fails, success needs all three to pass,
\* and from a terminal state the handler goes back to awaiting_input.
C1_FirstFailingCheckWins ==
    /\ [](C1_ChecksInOrder)
    /\ [][(state \in Terminal) => (state' = "awaiting_input")]_vars

C1_Witness ==
    /\ state = "forecast_failed"
    /\ Len(calls) = 5
    /\ calls[3].result = "model"

\* ---------------------------------------------------------------------- C2
FailurePage(msg) ==
    /\ page[1].status = 200
    /\ Len(page[1].error) = 1 /\ page[1].error[1] = msg
    /\ Len(page[1].forecast) = 0
    /\ Len(page[1].historical_plot_url) = 0
    /\ Len(page[1].forecast_plot_url) = 0
    /\ page[1].sections = {"error"}

\* C2: each failure state renders exactly its own error message, the three
\* messages are pairwise distinct, and no forecast or chart is set; success
\* renders no error and both charts.
C2_OneRenderingPerState ==
    /\ ERR_NO_DATA # ERR_TRAINING /\ ERR_NO_DATA # ERR_FORECAST
    /\ ERR_TRAINING # ERR_FORECAST
    /\ state = "no_data" => FailurePage("No data found for this product or no data between 2015-2024.")
    /\ state = "training_failed" => FailurePage("Failed to train ARIMA model.")
    /\ state = "forecast_failed" => FailurePage("Failed to generate forecast.")
    /\ state = "success" =>
          /\ page[1].status = 200
          /\ Len(page[1].error) = 0
          /\ Len(page[1].historical_plot_url) = 1
          /\ Len(page[1].forecast_plot_url) = 1
          /\ {"historical_plot", "forecast_plot"} \subseteq page[1].sections
          /\ "error" \notin page[1].sections

C2_Witness ==
    /\ state = "training_failed"
    /\ page[1].sections = {"error"}
    /\ Len(prepare_data(data, Requested)) > 0

\* ---------------------------------------------------------------------- C3
\* C3: a POST with a product code that is not in the dataset ends in no_data:
\* prepare_data returns an empty series, get_yearly_demand returns None, and
\* neither the forecaster nor the chart renderer is called.
C3_UnknownProductNoData ==
    (Handled /\ Requested \notin CodesIn(data.rows)) =>
        /\ state = "no_data"
        /\ empty(prepare_data(data, Requested))
        /\ Len(get_yearly_demand(data, Requested)) = 0
        /\ calls[1].result = "empty" /\ calls[2].result = "None"
        /\ ~Called("train_arima") /\ ~Called("predict_demand")
        /\ ~Called("create_historical_plot") /\ ~Called("create_forecast_plot")

C3_Witness ==
    /\ state = "no_data"
    /\ Len(data.rows) > 0
    /\ Requested \notin CodesIn(data.rows)

\* ---------------------------------------------------------------------- C4
\* C4 (as claimed): after a POST every year of the prepared and of the
\* historical series lies in 2015..2024, every point holds the sum of the
\* product's records of that year only, and a product whose records are all
\* dated outside the window gives no_data.
C4_WindowAsClaimed ==
    Handled =>
        LET series == prepare_data(data, Requested)
            historical == PointsOf(get_yearly_demand(data, Requested))
        IN  /\ \A i \in 1..Len(series) :
                  /\ InWindow(series[i].year)
                  /\ series[i].total = SumOver(DatedRowsOf(Requested), series[i].year)
            /\ \A i \in 1..Len(historical) :
                  /\ InWindow(historical[i].year)
                  /\ historical[i].total
                       = SumOver(DatedRowsOf(Requested), historical[i].year)
            /\ (DatedRowsOf(Requested) # {}
                  /\ \A y \in RecordYears(Requested) : ~InWindow(y))
               => state = "no_data"

\* ---------------------------------------------------------------------- C5
Following(last) == [j \in 1..STEPS |-> last + j]

InForecastRange(y) == FORECAST_MIN_YEAR <= y /\ y <= FORECAST_MAX_YEAR

\* C5: in success the forecast holds, in order, the years last+1..last+5 that
\* lie in 2025..2029, each with the value projected for it; a last historical
\* year before 2020 shows fewer than 5 years; the mapping given to the
\* template and to create_forecast_plot has no year outside 2025..2029.
C5_ForecastYears ==
    state = "success" =>
        LET series   == prepare_data(data, Requested)
            last     == series[Len(series)].year
            expected == SelectSeq(Following(last), InForecastRange)
            forecast == page[1].forecast[1]
            plot     == page[1].forecast_plot_url[1]
        IN  /\ Len(forecast) = Len(expected)
            /\ \A i \in 1..Len(forecast) :
                  /\ int(forecast[i][1]) = expected[i]
                  /\ forecast[i][1] = str(expected[i])
                  /\ InForecastRange(int(forecast[i][1]))
            /\ \E v \in ForecastSamples :
                  \A i \in 1..Len(forecast) : forecast[i][2] = v[expected[i] - last]
            /\ last < 2020 => Len(forecast) < STEPS
            /\ plot.xs = expected
            /\ \A i \in 1..Len(plot.xs) : plot.ys[i] = forecast[i][2]
            /\ plot.placeholder <=> (Len(forecast) = 0)

C5_Witness ==
    /\ state = "success"
    /\ Len(page[1].forecast[1]) = 3
    /\ page[1].forecast[1][1][1] = <<2, 0, 2, 5>>

\* ---------------------------------------------------------------------- C6
\* C6 (as claimed): both series hold a point only for a year in which the
\* product has at least one record.
C6_NoInventedYearsAsClaimed ==
    Handled =>
        /\ \A i \in 1..Len(prepare_data(data, Requested)) :
              prepare_data(data, Requested)[i].year \in RecordYears(Requested)
        /\ \A i \in 1..Len(PointsOf(get_yearly_demand(data, Requested))) :
              PointsOf(get_yearly_demand(data, Requested))[i].year
                  \in RecordYears(Requested)

\* what a series must be: one point per calendar year from the product's
\* first to its last dated record, kept when in 2015..2024, in increasing
\* order, holding the sum of that year's records (0 when it has none)
SpansRecordedRange(s, c) ==
    /\ \A i \in 1..Len(s) : \A j \in 1..Len(s) : i < j => s[i].year < s[j].year
    /\ { s[i].year : i \in 1..Len(s) }
         = { y \in MIN_YEAR..MAX_YEAR :
               /\ RecordYears(c) # {}
               /\ \E a \in RecordYears(c) : a <= y
               /\ \E b \in RecordYears(c) : y <= b }
    /\ \A i \in 1..Len(s) :
          ~s[i].isnan /\ s[i].total = SumOver(DatedRowsOf(c), s[i].year)

\* C6 (amended): both series hold one point for every calendar year between
\* the product's first and last dated record that lies in 2015..2024, with
\* the sum of that year's records, which is 0 for a year without records.
C6_YearsSpanRecordedRange ==
    Handled =>
        /\ SpansRecordedRange(prepare_data(data, Requested), Requested)
        /\ SpansRecordedRange(PointsOf(get_yearly_demand(data, Requested)), Requested)
        /\ Len(get_yearly_demand(data, Requested)) = 0
             <=> RecordYears(Requested) = {}

C6_Witness ==
    /\ Handled
    /\ RecordYears(Requested) = {2015, 2018}
    /\ Years(prepare_data(data, Requested)) = <<2015, 2016, 2017, 2018>>
    /\ prepare_data(data, Requested)[2].total = 0

\* ---------------------------------------------------------------------- C8
\* C8 (as claimed): every POST ends in one of the four terminal states with
\* a rendered page.
C8_NoUnhandledError ==
    state # "awaiting_input" =>
        /\ state \in Terminal
        /\ page[1].status = 200

\* ---------------------------------------------------------------------- C9
\* the reply a freshly started process gives to the same request
FreshReply(lib) ==
    index(Load(data.rows), unique(ProductCodes(data.rows)), "POST",
          [f \in {"product_code"} |-> Requested], lib)

C9_Independent ==
    /\ data = Load(data.rows)
    /\ products = unique(ProductCodes(data.rows))
    /\ Handled => \E lib \in LibOutcomes :
                     FreshReply(lib) = Reply(state, page[1], calls)

\* C9: no request changes data or products (the in-place pandas calls of the
\* two series functions reach only their own copy), and the reply to a POST
\* is the one the freshly loaded dataset gives for that product code,
\* whatever requests came before.
C9_DatasetNeverMutated ==
    /\ [][data' = data /\ products' = products]_vars
    /\ [](C9_Independent)

\* a POST answered with success after at least one earlier request
C9_Witness ==
    /\ answered
    /\ state = "success"
    /\ Len(products) = 2
    /\ Requested = products[2]

\* --------------------------------------------------------------------- C10
\* C10: prepare_data and get_yearly_demand agree for every product code:
\* one is empty exactly when the other is None or empty, otherwise they hold
\* the same points in the same order; so the charted series is the training
\* series and its last year is the year the forecast labels start from.
C10_PreparedEqualsHistorical ==
    /\ \A c \in RequestCodes :
          /\ empty(prepare_data(data, c))
               <=> empty(PointsOf(get_yearly_demand(data, c)))
          /\ prepare_data(data, c) = PointsOf(get_yearly_demand(data, c))
    /\ state = "success" =>
          LET series == prepare_data(data, Requested)
              chart  == page[1].historical_plot_url[1]
          IN  /\ chart.xs = Years(series)
              /\ chart.ys = Totals(series)
              /\ \A i \in 1..Len(page[1].forecast[1]) :
                    int(page[1].forecast[1][i][1]) > chart.xs[Len(chart.xs)]
                    /\ int(page[1].forecast[1][i][1]) <= chart.xs[Len(chart.xs)] + STEPS

C10_Witness ==
    /\ state = "success"
    /\ \E i \in 1..Len(prepare_data(data, Requested)) :
          prepare_data(data, Requested)[i].year \notin RecordYears(Requested)
    /\ Len(page[1].forecast[1]) > 0

====
